---- MODULE Spec2Model ----
(***************************************************************************)
(* A model of the TagSoft API (src/server.js): an in-memory store of       *)
(* accounts, containers and events behind a shared-secret gate, with an    *)
(* on-demand aggregation over the events.                                  *)
(*                                                                         *)
(* A request is one action: the whole handler, from the gate to the reply. *)
(* The request that acted last and the reply it got are kept in req and    *)
(* resp, so that a property can speak of "the response to this request".   *)
(*                                                                         *)
(* The body of a request is a parsed JSON document, so a field may hold    *)
(* any JSON value: it may be missing, a string, a number, an array or an   *)
(* object.  The handlers coerce fields with String(), Number() and         *)
(* Date.parse(), and the model keeps the kind of every value so that the   *)
(* coercions do what JavaScript does.                                      *)
(***************************************************************************)
EXTENDS Integers, Sequences, FiniteSets, TLC

VARIABLES
    accounts,    \* db.accounts: a Map, as the sequence of its entries in insertion order
    containers,  \* db.containers: a Map, as the sequence of its entries in insertion order
    events,      \* db.events: an array
    now,         \* the wall clock, in milliseconds (Date.now())
    ticks,       \* how many times the clock has advanced
    req,         \* the request handled last, since the clock last advanced
    resp,        \* the reply to it
    accepted,    \* history: the event names of the ingest requests answered 200, in order
    inserted,    \* history: the container ids of the upserts answered 200, each once, in
                 \* the order of their first upsert
    loop         \* the handler on the call stack, when its steps are told apart: its
                 \* position pc, its body, the reply it is about to send, and the
                 \* accounts as its check saw them

vars == <<accounts, containers, events, now, ticks, req, resp, accepted, inserted, loop>>

(***************************************************************************)
(* Bounds of the model.                                                    *)
(***************************************************************************)
MaxEvents == 2
MaxTicks == 1

(***************************************************************************)
(* JSON values.  t is the kind, v the text of a string (or the label of an *)
(* opaque object or array), n the magnitude of a number.                   *)
(*   absent : the field is missing (undefined)                             *)
(*   str    : a string; v = "iso" stands for the ISO-8601 text of the time *)
(*            n, as Date.prototype.toISOString writes it                   *)
(*   num    : the number n                                                 *)
(*   nan    : NaN                                                          *)
(*   obj    : a plain object, opaque, labelled v                           *)
(*   arr    : an array, opaque, labelled v                                 *)
(*   bad    : an object with an own property "toString" that is not a      *)
(*            function, such as {"toString": 1}: ToPrimitive finds no      *)
(*            callable toString and a valueOf that returns the object, and *)
(*            throws a TypeError                                           *)
(***************************************************************************)
Absent == [t |-> "absent", v |-> "", n |-> 0]
Str(s) == [t |-> "str", v |-> s, n |-> 0]
Num(k) == [t |-> "num", v |-> "", n |-> k]
NaN == [t |-> "nan", v |-> "", n |-> 0]
Obj(s) == [t |-> "obj", v |-> s, n |-> 0]
Arr(s) == [t |-> "arr", v |-> s, n |-> 0]
Bad == [t |-> "bad", v |-> "", n |-> 0]
Iso(ms) == [t |-> "str", v |-> "iso", n |-> ms]

\* JavaScript's ToBoolean: undefined, "", 0 and NaN are falsy, all else truthy.
Truthy(x) ==
    CASE x.t = "absent" -> FALSE
      [] x.t = "str" -> x.v # ""
      [] x.t = "num" -> x.n # 0
      [] x.t = "nan" -> FALSE
      [] OTHER -> TRUE

\* a || b
OrElse(a, b) == IF Truthy(a) THEN a ELSE b

\* Whether String(x), Number(x) or Date.parse(x) throws a TypeError.
Throws(x) == x.t = "bad"

\* The decimal text of the numbers the model uses.
NumText(k) ==
    CASE k = 0 -> "0"
      [] k = 1 -> "1"
      [] k = 2 -> "2"
      [] k = 5 -> "5"
      [] OTHER -> "big"

\* String(x), for an x on which it does not throw.
String(x) ==
    CASE x.t = "str" -> x
      [] x.t = "num" -> Str(NumText(x.n))
      [] x.t = "nan" -> Str("NaN")
      [] x.t = "absent" -> Str("undefined")
      [] x.t = "arr" -> Str(x.v)
      [] OTHER -> Str("[object Object]")

\* Number(x), for an x on which it does not throw: the numeric strings of the
\* model are "1", "2" and "5".
Number(x) ==
    CASE x.t = "num" -> x
      [] x.t = "str" /\ x.v = "1" -> Num(1)
      [] x.t = "str" /\ x.v = "2" -> Num(2)
      [] x.t = "str" /\ x.v = "5" -> Num(5)
      [] x.t = "str" /\ x.v = "" -> Num(0)
      [] OTHER -> NaN

\* a variant that trims nothing
TrimNothing(s) == s

\* String.prototype.trim on the texts of the model: only these carry white space.
Trim(s) ==
    CASE s = " " -> ""
      [] s = " view " -> "view"
      [] OTHER -> s

\* Date.parse(x), for an x on which it does not throw: the time of an ISO text,
\* NaN for a text that is no date.
DateParse(x) == IF x.t = "str" /\ x.v = "iso" THEN Num(x.n) ELSE NaN

(***************************************************************************)
(* A Map, as the sequence of its entries [k, v] in insertion order.        *)
(* Keys are compared by SameValueZero: a string never equals a number.     *)
(***************************************************************************)
Range(q) == {q[i] : i \in 1..Len(q)}
MapKeys(m) == {m[i].k : i \in 1..Len(m)}
MapHas(m, key) == key \in MapKeys(m)
MapIndex(m, key) == CHOOSE i \in 1..Len(m) : m[i].k = key
MapGet(m, key) == m[MapIndex(m, key)].v
\* Map.prototype.set: a key already present keeps its place.
MapSet(m, key, val) ==
    IF MapHas(m, key)
    THEN [m EXCEPT ![MapIndex(m, key)] = [k |-> key, v |-> val]]
    ELSE Append(m, [k |-> key, v |-> val])
\* Array.from(m.values())
MapValues(m) == [i \in 1..Len(m) |-> m[i].v]

(***************************************************************************)
(* Program constants.                                                      *)
(***************************************************************************)
\* process.env.API_KEY || 'DEMO_KEY', with the environment variable unset
API_KEY == "DEMO_KEY"
\* 24 * 3600 * 1000
Window == 86400000
\* The time at which the process starts.
T0 == 2 * Window

(***************************************************************************)
(* Requests and replies.                                                   *)
(***************************************************************************)
EmptyBody ==
    [account_id |-> Absent, name |-> Absent, meta |-> Absent,
     container_id |-> Absent, type |-> Absent, version |-> Absent,
     variables |-> Absent, triggers |-> Absent, tags |-> Absent,
     event |-> Absent, ts |-> Absent, user |-> Absent, context |-> Absent,
     biz |-> Absent, prompt |-> Absent]

\* op: the route; key: the x-api-key header; id: the :id parameter or the
\* account_id of the query string; body: the parsed body
Request(op, key, id, body) == [op |-> op, key |-> key, id |-> id, body |-> body]

NoRequest == Request("none", Absent, Absent, EmptyBody)

\* The reply: status is the HTTP status; id the account_id, container_id or
\* event id of a write's reply; accts and conts the records a read returns;
\* total_events, last24h and by_event the overview; top, count and prompt the
\* parts of the chat's answer.

NoReply ==
    [status |-> 0, error |-> "", id |-> Absent, accts |-> <<>>,
     conts |-> <<>>, total_events |-> 0, last24h |-> 0, by_event |-> <<>>,
     top |-> "", count |-> Absent, prompt |-> Absent]

Fail(code, msg) == [NoReply EXCEPT !.status = code, !.error = msg]
Ok == [NoReply EXCEPT !.status = 200]

\* assertAuth without the comparison with the secret: any non-empty key passes
assertAuthAnyKey(key) == Truthy(key)

\* function assertAuth(req): TRUE when it returns, FALSE when it throws
assertAuth(key) == ~(~Truthy(key) \/ key # Str(API_KEY))

\* no handler is on the call stack
IdleLoop == [pc |-> "idle", body |-> EmptyBody, reply |-> NoReply, seen |-> <<>>]

Init ==
    /\ accounts = <<>>
    /\ containers = <<>>
    /\ events = <<>>
    /\ now = T0
    /\ ticks = 0
    /\ req = NoRequest
    /\ resp = NoReply
    /\ accepted = <<>>
    /\ inserted = <<>>
    /\ loop = IdleLoop

(***************************************************************************)
(* PUT /v1/accounts                                                        *)
(***************************************************************************)
PutAccountReply(key, body) ==
    IF ~assertAuth(key) THEN Fail(401, "unauthorized")
    ELSE IF ~Truthy(body.account_id) THEN Fail(400, "account_id required")
    ELSE IF ~Truthy(body.name) THEN Fail(400, "name required")
    ELSE IF Throws(body.account_id) \/ Throws(body.name)
         THEN Fail(500, "TypeError")
    ELSE [Ok EXCEPT !.id = String(body.account_id)]

NewAccount(body) ==
    [account_id |-> String(body.account_id),
     name |-> String(body.name),
     created_at |-> Iso(now)]

PutAccount(key, body) ==
    /\ req' = Request("PUT /v1/accounts", key, Absent, body)
    /\ resp' = PutAccountReply(key, body)
    /\ accounts' = IF resp'.status = 200
                   THEN MapSet(accounts, String(body.account_id), NewAccount(body))
                   ELSE accounts
    /\ UNCHANGED <<containers, events, now, ticks, accepted, inserted, loop>>

(***************************************************************************)
(* GET /v1/accounts and GET /v1/accounts/:id                               *)
(***************************************************************************)
ListAccountsReply(key) ==
    IF ~assertAuth(key) THEN Fail(401, "unauthorized")
    ELSE [Ok EXCEPT !.accts = MapValues(accounts)]

ListAccounts(key) ==
    /\ req' = Request("GET /v1/accounts", key, Absent, EmptyBody)
    /\ resp' = ListAccountsReply(key)
    /\ UNCHANGED <<accounts, containers, events, now, ticks, accepted, inserted, loop>>

\* id is req.params.id: always a string
GetAccountReply(key, id) ==
    IF ~assertAuth(key) THEN Fail(401, "unauthorized")
    ELSE IF ~MapHas(accounts, id) THEN Fail(404, "not_found")
    ELSE [Ok EXCEPT !.accts = <<MapGet(accounts, id)>>]

GetAccount(key, id) ==
    /\ req' = Request("GET /v1/accounts/:id", key, id, EmptyBody)
    /\ resp' = GetAccountReply(key, id)
    /\ UNCHANGED <<accounts, containers, events, now, ticks, accepted, inserted, loop>>

(***************************************************************************)
(* PUT /v1/containers                                                      *)
(***************************************************************************)
IsArray(x) == x.t = "arr"
EmptyArray == Arr("")

\* const type = String(c.type || 'web')
ContainerType(c) == String(OrElse(c.type, Str("web")))

PutContainerReply(key, c) ==
    IF ~assertAuth(key) THEN Fail(401, "unauthorized")
    ELSE IF ~Truthy(c.container_id) THEN Fail(400, "container_id required")
    ELSE IF ~Truthy(c.name) THEN Fail(400, "name required")
    ELSE IF ~Truthy(c.account_id) THEN Fail(400, "account_id required")
    ELSE IF Throws(c.account_id) THEN Fail(500, "TypeError")
    ELSE IF ~MapHas(accounts, String(c.account_id)) THEN Fail(400, "unknown account_id")
    ELSE IF Throws(OrElse(c.type, Str("web"))) THEN Fail(500, "TypeError")
    ELSE IF ContainerType(c) \notin {Str("web"), Str("server")} THEN Fail(400, "invalid type")
    ELSE IF Throws(OrElse(c.version, Num(1))) THEN Fail(500, "TypeError")
    ELSE [Ok EXCEPT !.id = c.container_id]

\* The body object after the normalisation of its optional fields: it is the
\* body itself that is stored.
NormalizedContainer(c) ==
    [container_id |-> c.container_id,
     name |-> c.name,
     account_id |-> c.account_id,
     type |-> ContainerType(c),
     version |-> Number(OrElse(c.version, Num(1))),
     variables |-> IF IsArray(c.variables) THEN c.variables ELSE EmptyArray,
     triggers |-> IF IsArray(c.triggers) THEN c.triggers ELSE EmptyArray,
     tags |-> IF IsArray(c.tags) THEN c.tags ELSE EmptyArray]

PutContainer(key, c) ==
    /\ req' = Request("PUT /v1/containers", key, Absent, c)
    /\ resp' = PutContainerReply(key, c)
    /\ containers' = IF resp'.status = 200
                     THEN MapSet(containers, c.container_id, NormalizedContainer(c))
                     ELSE containers
    /\ inserted' = IF resp'.status = 200 /\ c.container_id \notin Range(inserted)
                   THEN Append(inserted, c.container_id)
                   ELSE inserted
    /\ UNCHANGED <<accounts, events, now, ticks, accepted, loop>>

(***************************************************************************)
(* The container upsert in two steps, the checks and the write.  The       *)
(* handler is an async function without await: once the event loop has     *)
(* called it, it runs to its return before the event loop calls another    *)
(* handler.  A handler that fails a check returns at once.                 *)
(***************************************************************************)
\* a variant in which the event loop calls a handler at any time, as it
\* would after an await between the checks and the write
IdleAlways == TRUE

\* the event loop calls a handler only when the call stack is empty
Idle == loop.pc = "idle"

\* assertAuth and the checks of the body
PutContainerCheck(key, c) ==
    /\ Idle
    /\ req' = Request("PUT /v1/containers", key, Absent, c)
    /\ IF PutContainerReply(key, c).status = 200
       THEN /\ loop' = [pc |-> "checked", body |-> c,
                        reply |-> PutContainerReply(key, c), seen |-> accounts]
            /\ resp' = NoReply
       ELSE /\ loop' = IdleLoop
            /\ resp' = PutContainerReply(key, c)
    /\ UNCHANGED <<accounts, containers, events, now, ticks, accepted, inserted>>

\* the normalisation, db.containers.set and the return
PutContainerWrite ==
    /\ loop.pc = "checked"
    /\ containers' = MapSet(containers, loop.body.container_id, NormalizedContainer(loop.body))
    /\ inserted' = IF loop.body.container_id \notin Range(inserted)
                   THEN Append(inserted, loop.body.container_id)
                   ELSE inserted
    /\ resp' = loop.reply
    /\ loop' = IdleLoop
    /\ UNCHANGED <<accounts, events, now, ticks, req, accepted>>

(***************************************************************************)
(* GET /v1/containers and GET /v1/containers/:id                           *)
(***************************************************************************)
\* list.filter(c => c.account_id === aid)
FilterByAccount(list, aid) ==
    SelectSeq(list, LAMBDA c : c.account_id = aid)

\* q is req.query.account_id: a string, or absent
ListContainersReply(key, q) ==
    IF ~assertAuth(key) THEN Fail(401, "unauthorized")
    ELSE IF Truthy(q)
         THEN [Ok EXCEPT !.conts = FilterByAccount(MapValues(containers), String(q))]
    ELSE [Ok EXCEPT !.conts = MapValues(containers)]

ListContainers(key, q) ==
    /\ req' = Request("GET /v1/containers", key, q, EmptyBody)
    /\ resp' = ListContainersReply(key, q)
    /\ UNCHANGED <<accounts, containers, events, now, ticks, accepted, inserted, loop>>

GetContainerReply(key, id) ==
    IF ~assertAuth(key) THEN Fail(401, "unauthorized")
    ELSE IF ~MapHas(containers, id) THEN Fail(404, "not found")
    ELSE [Ok EXCEPT !.conts = <<MapGet(containers, id)>>]

GetContainer(key, id) ==
    /\ req' = Request("GET /v1/containers/:id", key, id, EmptyBody)
    /\ resp' = GetContainerReply(key, id)
    /\ UNCHANGED <<accounts, containers, events, now, ticks, accepted, inserted, loop>>

(***************************************************************************)
(* POST /v1/ingest                                                         *)
(***************************************************************************)
\* String(body.event || '').trim(), when String does not throw
EventName(body) == Str(Trim(String(OrElse(body.event, Str(""))).v))

\* randomUUID(): a value no stored event carries
NewEventId == Num(Len(events) + 1)

IngestReply(key, body) ==
    IF ~assertAuth(key) THEN Fail(401, "unauthorized")
    ELSE IF Throws(OrElse(body.event, Str(""))) THEN Fail(500, "TypeError")
    ELSE IF ~Truthy(EventName(body)) THEN Fail(400, "campo obrigatorio: event")
    ELSE [Ok EXCEPT !.id = NewEventId]

NewEvent(body) ==
    [id |-> NewEventId,
     event |-> EventName(body),
     ts |-> OrElse(body.ts, Iso(now)),
     user |-> OrElse(body.user, Obj("{}")),
     context |-> OrElse(body.context, Obj("{}")),
     biz |-> OrElse(body.biz, Obj("{}"))]

\* a variant that puts the new event first (unshift)
PushFront(list, x) == <<x>> \o list

\* Array.prototype.push
Push(list, x) == Append(list, x)

Ingest(key, body) ==
    /\ req' = Request("POST /v1/ingest", key, Absent, body)
    /\ resp' = IngestReply(key, body)
    /\ events' = IF resp'.status = 200 THEN Push(events, NewEvent(body)) ELSE events
    /\ accepted' = IF resp'.status = 200 THEN Append(accepted, EventName(body).v) ELSE accepted
    /\ UNCHANGED <<accounts, containers, now, ticks, inserted, loop>>

(***************************************************************************)
(* The frequency table: a reduce over the events into the object {}.       *)
(* An object is the sequence of its own properties [k, v] in the order     *)
(* Object.entries lists them: integer-like keys first, ascending, then the *)
(* other keys in the order of their creation.  {} inherits the properties  *)
(* of Object.prototype.                                                    *)
(***************************************************************************)
ObjectPrototype ==
    {"constructor", "__proto__", "toString", "valueOf", "hasOwnProperty",
     "isPrototypeOf", "propertyIsEnumerable", "toLocaleString"}

IsIndexKey(k) == k \in {"0", "1", "2", "5"}
IndexOf(k) == CASE k = "0" -> 0 [] k = "1" -> 1 [] k = "2" -> 2 [] OTHER -> 5

OwnKeys(o) == {o[i].k : i \in 1..Len(o)}
OwnIndex(o, k) == CHOOSE i \in 1..Len(o) : o[i].k = k

\* o[k]: the own property, else the inherited one (a function or an object), else undefined
PropGet(o, k) ==
    IF k \in OwnKeys(o) THEN o[OwnIndex(o, k)].v
    ELSE IF k \in ObjectPrototype THEN Obj("inherited")
    ELSE Absent

\* o[k] = val.  The setter of __proto__ ignores a value that is no object.
PropSet(o, k, val) ==
    IF k \in OwnKeys(o) THEN [o EXCEPT ![OwnIndex(o, k)] = [k |-> k, v |-> val]]
    ELSE IF k = "__proto__" THEN o
    ELSE IF IsIndexKey(k)
         THEN LET before == Cardinality({i \in 1..Len(o) :
                                 IsIndexKey(o[i].k) /\ IndexOf(o[i].k) < IndexOf(k)})
              IN SubSeq(o, 1, before) \o <<[k |-> k, v |-> val]>> \o SubSeq(o, before + 1, Len(o))
    ELSE Append(o, [k |-> k, v |-> val])

\* x + 1: a number is incremented; anything else is turned into text and "1" is
\* appended to it (v = "text" is a text that is no number, n counts the appended 1s)
PlusOne(x) ==
    IF x.t = "num" THEN Num(x.n + 1)
    ELSE [t |-> "str", v |-> "text", n |-> x.n + 1]

\* (acc, e) => { acc[e.event] = (acc[e.event] || 0) + 1; return acc; }
CountStep(acc, e) ==
    PropSet(acc, e.event.v, PlusOne(OrElse(PropGet(acc, e.event.v), Num(0))))

RECURSIVE Reduce(_, _)
\* evs.reduce(CountStep, acc)
Reduce(evs, acc) ==
    IF evs = <<>> THEN acc ELSE Reduce(Tail(evs), CountStep(acc, Head(evs)))

ByEvent(evs) == Reduce(evs, <<>>)

(***************************************************************************)
(* GET /v1/analytics/overview                                              *)
(***************************************************************************)
\* e => now - Date.parse(e.ts) < 24 * 3600 * 1000; a comparison with NaN is false
InLast24h(e, t) ==
    LET p == DateParse(e.ts) IN p.t = "num" /\ t - p.n < Window

Last24h(evs, t) == Len(SelectSeq(evs, LAMBDA e : InLast24h(e, t)))

OverviewReply(key) ==
    IF ~assertAuth(key) THEN Fail(401, "unauthorized")
    ELSE IF \E i \in 1..Len(events) : Throws(events[i].ts) THEN Fail(500, "TypeError")
    ELSE [Ok EXCEPT !.total_events = Len(events),
                    !.last24h = Last24h(events, now),
                    !.by_event = ByEvent(events)]

\* a variant that empties the event list once it has aggregated it
OverviewDrain(key) ==
    /\ req' = Request("GET /v1/analytics/overview", key, Absent, EmptyBody)
    /\ resp' = OverviewReply(key)
    /\ events' = <<>>
    /\ UNCHANGED <<accounts, containers, now, ticks, accepted, inserted, loop>>

Overview(key) ==
    /\ req' = Request("GET /v1/analytics/overview", key, Absent, EmptyBody)
    /\ resp' = OverviewReply(key)
    /\ UNCHANGED <<accounts, containers, events, now, ticks, accepted, inserted, loop>>

(***************************************************************************)
(* POST /v1/analysis/chat                                                  *)
(***************************************************************************)
\* The entries that Object.entries(o).sort((a,b) => b[1]-a[1]) may put first.
\* The sort is stable, so with numeric counts it is the first entry of the
\* largest count.  A count that is no number makes b[1]-a[1] NaN, the
\* comparison inconsistent and the order implementation-defined.
TopEntries(o) ==
    IF \A i \in 1..Len(o) : o[i].v.t = "num"
    THEN {i \in 1..Len(o) :
            /\ \A j \in 1..Len(o) : o[j].v.n <= o[i].v.n
            /\ \A j \in 1..(i - 1) : o[j].v.n < o[i].v.n}
    ELSE 1..Len(o)

ChatReply(key, body, i) ==
    IF ~assertAuth(key) THEN Fail(401, "unauthorized")
    ELSE LET o == ByEvent(events) IN
         [Ok EXCEPT !.top = IF i = 0 THEN "n/a" ELSE o[i].k,
                    !.count = IF i = 0 THEN Num(0) ELSE OrElse(o[i].v, Num(0)),
                    !.prompt = OrElse(body.prompt, Str(""))]

\* top is undefined when the table has no entry
TopChoices(o) == IF Len(o) = 0 THEN {0} ELSE TopEntries(o)

Chat(key, body) ==
    /\ req' = Request("POST /v1/analysis/chat", key, Absent, body)
    /\ \E i \in TopChoices(ByEvent(events)) : resp' = ChatReply(key, body, i)
    /\ UNCHANGED <<accounts, containers, events, now, ticks, accepted, inserted, loop>>

(***************************************************************************)
(* GET /v1/health: not behind the gate                                     *)
(***************************************************************************)
Health ==
    /\ req' = Request("GET /v1/health", Absent, Absent, EmptyBody)
    /\ resp' = Ok
    /\ UNCHANGED <<accounts, containers, events, now, ticks, accepted, inserted, loop>>

(***************************************************************************)
(* The clock advances by d milliseconds between two requests.  req and     *)
(* resp are cleared: while req names a request, now is the time at which   *)
(* it was handled.                                                         *)
(***************************************************************************)
Tick(d) ==
    /\ ticks < MaxTicks
    /\ now' = now + d
    /\ ticks' = ticks + 1
    /\ req' = NoRequest
    /\ resp' = NoReply
    /\ UNCHANGED <<accounts, containers, events, accepted, inserted, loop>>

(***************************************************************************)
(* The requests of the model.                                              *)
(***************************************************************************)
GoodKey == Str(API_KEY)
BadKeys == {Absent, Str(""), Str("WRONG")}

AccountBody(id, name, meta) ==
    [EmptyBody EXCEPT !.account_id = id, !.name = name, !.meta = meta]

\* accepted: the ids "1" (as text and as the number 1) and "a"; a name of one
\* blank; with and without meta
AccountBodies ==
    {AccountBody(Str("1"), Str("Acme"), Absent),
     AccountBody(Str("1"), Str(" "), Obj("m")),
     AccountBody(Num(1), Str("Acme"), Obj("m")),
     AccountBody(Str("a"), Str("Acme"), Absent)}

\* rejected: a field missing, empty, zero, or an object String() throws on
BadAccountBodies ==
    {EmptyBody,
     AccountBody(Absent, Str("Acme"), Absent),
     AccountBody(Absent, Str("Acme"), Obj("m")),
     AccountBody(Num(0), Str("Acme"), Absent),
     AccountBody(Str("1"), Absent, Absent),
     AccountBody(Str("1"), Str(""), Absent),
     AccountBody(Bad, Str("Acme"), Absent),
     AccountBody(Str("1"), Bad, Absent)}

\* a body with the required fields only
SmallContainer(cid, aid) ==
    [EmptyBody EXCEPT !.container_id = cid, !.name = Str("site"), !.account_id = aid]

\* a body with every field
FullContainer(cid, aid) ==
    [SmallContainer(cid, aid) EXCEPT !.type = Str("server"), !.version = Num(2),
        !.variables = Arr("v"), !.triggers = Arr("t"), !.tags = Arr("g")]

\* accepted once the account is there: the ids "c1" and the number 1, the
\* account given as text and as a number, and versions that are no positive
\* integer
ContainerBodies ==
    {SmallContainer(Str("c1"), Str("1")),
     FullContainer(Str("c1"), Str("1")),
     SmallContainer(Str("c1"), Num(1)),
     SmallContainer(Str("c1"), Str("a")),
     SmallContainer(Num(1), Str("1")),
     FullContainer(Num(1), Str("a")),
     [SmallContainer(Str("c1"), Str("1")) EXCEPT !.version = Num(0)],
     [SmallContainer(Str("c1"), Str("1")) EXCEPT !.version = Num(-1)],
     [SmallContainer(Str("c1"), Str("1")) EXCEPT !.version = Str("abc")]}

\* rejected whatever the store holds
BadContainerBodies ==
    {EmptyBody,
     SmallContainer(Absent, Str("1")),
     [SmallContainer(Str("c1"), Str("1")) EXCEPT !.name = Absent],
     SmallContainer(Str("c1"), Absent),
     SmallContainer(Str("c1"), Str("zz")),
     FullContainer(Str("c1"), Str("zz")),
     SmallContainer(Str("c1"), Bad),
     SmallContainer(Absent, Bad),
     [SmallContainer(Str("c1"), Str("1")) EXCEPT !.type = Str("WEB")],
     [SmallContainer(Str("c1"), Str("1")) EXCEPT !.type = Bad],
     [SmallContainer(Str("c1"), Str("zz")) EXCEPT !.type = Str("WEB")],
     [SmallContainer(Str("c1"), Str("1")) EXCEPT !.version = Bad]}

PathIds == {Str("1"), Str("a"), Str("c1"), Str("zz")}
QueryIds == {Absent, Str("1"), Str("a")}

EventBody(event, ts) == [EmptyBody EXCEPT !.event = event, !.ts = ts]

\* the times a caller supplies: one that is already 24 h old when the process
\* starts, one that is still to come, and values that are no time
CallerTs == {Absent, Str(""), Iso(T0 - Window), Iso(T0 + 1), Str("garbage"), Bad}

EventBodies ==
    {EventBody(event, ts) :
        event \in {Str("view"), Str(" view "), Str("click"), Str("constructor")},
        ts \in CallerTs}
    \cup {[EventBody(Str("view"), Absent) EXCEPT
              !.user = Obj("u"), !.context = Obj("c"), !.biz = Obj("b")]}

BadEventBodies ==
    {EmptyBody,
     EventBody(Absent, Iso(T0 + 1)),
     EventBody(Str(""), Absent),
     EventBody(Str(" "), Absent),
     EventBody(Num(0), Absent),
     EventBody(Bad, Absent)}

ChatBodies == {EmptyBody, [EmptyBody EXCEPT !.prompt = Str("why")]}

(***************************************************************************)
(* The store: accounts and containers.                                     *)
(***************************************************************************)
NextStore ==
    \/ \E b \in AccountBodies \cup BadAccountBodies : PutAccount(GoodKey, b)
    \/ \E b \in ContainerBodies \cup BadContainerBodies : PutContainer(GoodKey, b)
    \/ ListAccounts(GoodKey)
    \/ \E id \in PathIds : GetAccount(GoodKey, id)
    \/ \E q \in QueryIds : ListContainers(GoodKey, q)
    \/ \E id \in PathIds : GetContainer(GoodKey, id)
    \/ Tick(1)

SpecStore == Init /\ [][NextStore]_vars

(***************************************************************************)
(* The events and their aggregation.                                       *)
(***************************************************************************)
NextEvents ==
    \/ \E b \in EventBodies \cup BadEventBodies :
          Len(events) < MaxEvents /\ Ingest(GoodKey, b)
    \/ Overview(GoodKey)
    \/ \E b \in ChatBodies : Chat(GoodKey, b)
    \/ \E d \in {1, Window} : Tick(d)

SpecEvents == Init /\ [][NextEvents]_vars

(***************************************************************************)
(* The top event: names that are ordinary texts and a name that is the     *)
(* number 5, stored as the text "5".                                       *)
(***************************************************************************)
TopEventBodies ==
    {EventBody(Str("view"), Absent),
     EventBody(Str("click"), Absent),
     EventBody(Num(5), Absent),
     EmptyBody}

NextTop ==
    \/ \E b \in TopEventBodies : Len(events) < MaxEvents /\ Ingest(GoodKey, b)
    \/ \E b \in ChatBodies : Chat(GoodKey, b)
    \/ Tick(1)

SpecTop == Init /\ [][NextTop]_vars

(***************************************************************************)
(* Requests in any order, the container upsert in its two steps.           *)
(***************************************************************************)
LoopAccountBodies ==
    {AccountBody(Str("1"), Str("Acme"), Absent),
     AccountBody(Str("a"), Str("Acme"), Obj("m")),
     EmptyBody}

LoopContainerBodies ==
    {SmallContainer(Str("c1"), Str("1")),
     FullContainer(Str("c1"), Str("a")),
     SmallContainer(Num(1), Str("1")),
     SmallContainer(Str("c1"), Str("zz")),
     EmptyBody}

NextLoop ==
    \/ \E b \in LoopAccountBodies : Idle /\ PutAccount(GoodKey, b)
    \/ \E b \in LoopContainerBodies : PutContainerCheck(GoodKey, b)
    \/ PutContainerWrite
    \/ \E id \in {Str("1")} : Idle /\ GetAccount(GoodKey, id)
    \/ \E q \in {Absent, Str("1")} : Idle /\ ListContainers(GoodKey, q)
    \/ \E id \in {Str("c1")} : Idle /\ GetContainer(GoodKey, id)

SpecLoop == Init /\ [][NextLoop]_vars

(***************************************************************************)
(* The whole API.  Requests that carry the key draw from a few bodies of   *)
(* each kind, so that all three collections fill; requests that do not     *)
(* carry it draw from accepted and rejected bodies alike.                  *)
(***************************************************************************)
Keys == BadKeys \cup {GoodKey}

Next ==
    \/ \E b \in {AccountBody(Str("1"), Str("Acme"), Absent), EmptyBody} :
          PutAccount(GoodKey, b)
    \/ \E k \in BadKeys,
          b \in {AccountBody(Str("a"), Str("Acme"), Absent),
                 AccountBody(Bad, Str("Acme"), Obj("m")), EmptyBody} :
          PutAccount(k, b)
    \/ \E k \in Keys : ListAccounts(k)
    \/ \E k \in Keys, id \in {Str("1")} : GetAccount(k, id)
    \/ \E b \in {SmallContainer(Str("c1"), Str("1")), SmallContainer(Str("c1"), Str("zz"))} :
          PutContainer(GoodKey, b)
    \/ \E k \in BadKeys,
          b \in {FullContainer(Num(1), Str("1")), SmallContainer(Str("c1"), Bad), EmptyBody} :
          PutContainer(k, b)
    \/ \E k \in Keys, q \in {Absent, Str("1")} : ListContainers(k, q)
    \/ \E k \in Keys, id \in {Str("c1")} : GetContainer(k, id)
    \/ \E b \in {EventBody(Str("view"), Absent), EmptyBody} :
          Len(events) < MaxEvents /\ Ingest(GoodKey, b)
    \/ \E k \in BadKeys,
          b \in {EventBody(Str("click"), Iso(T0 + 1)), EventBody(Bad, Bad), EmptyBody} :
          Ingest(k, b)
    \/ \E k \in Keys : Overview(k)
    \/ \E k \in Keys, b \in ChatBodies : Chat(k, b)
    \/ Health
    \/ Tick(1)

Spec == Init /\ [][Next]_vars

(***************************************************************************)
(*                             PROPERTIES                                  *)
(***************************************************************************)
GatedOps ==
    {"GET /v1/accounts", "GET /v1/accounts/:id", "PUT /v1/accounts",
     "GET /v1/containers", "GET /v1/containers/:id", "PUT /v1/containers",
     "POST /v1/ingest", "GET /v1/analytics/overview", "POST /v1/analysis/chat"}

\* a field of a stored record, Absent when the record has no such field
Field(rec, f) == IF f \in DOMAIN rec THEN rec[f] ELSE Absent

\* a name that is a non-empty text after trimming
ValidName(x) == x.t = "str" /\ Trim(x.v) # ""

\* C1: a request to a gated endpoint whose x-api-key is absent or is not the
\* configured secret is answered 401 and leaves accounts, containers and
\* events as they were, whatever its body.
C1_UnauthorizedRejected ==
    [][(req'.op \in GatedOps /\ req'.key # Str(API_KEY))
        => (/\ resp'.status = 401
            /\ accounts' = accounts
            /\ containers' = containers
            /\ events' = events)]_vars

\* a container upsert with a wrong key and a body that the store would have
\* accepted, against a store that holds an account, a container and an event
C1_Witness ==
    /\ req.op = "PUT /v1/containers"
    /\ req.key = Str("WRONG")
    /\ req.body = FullContainer(Num(1), Str("1"))
    /\ MapHas(accounts, Str("1"))
    /\ Len(containers) > 0
    /\ Len(events) > 0
    /\ resp.status = 401

\* the account a body's account_id names, if any: the code looks it up by String(account_id)
NamesAccount(x) == x.t \in {"str", "num"} /\ MapHas(accounts, String(x))

\* C2: an authorised PUT /v1/containers whose account_id names no account of
\* the collection is answered 400, whatever its other fields, and leaves
\* containers and accounts unchanged.
C2_UnknownAccountIs400 ==
    [][(/\ req'.op = "PUT /v1/containers"
        /\ req'.key = Str(API_KEY)
        /\ ~NamesAccount(req'.body.account_id))
        => (/\ resp'.status = 400
            /\ containers' = containers
            /\ accounts' = accounts)]_vars

\* C3: every stored container has an account_id that is the key of an
\* account of the account collection.
C3_ReferentialIntegrity ==
    \A i \in 1..Len(containers) : MapHas(accounts, containers[i].v.account_id)

\* C4: after an accepted PUT /v1/accounts, GET /v1/accounts/X with the X of the
\* reply returns a record whose name and meta are those of the PUT.
C4_UpsertThenGet ==
    (req.op = "PUT /v1/accounts" /\ resp.status = 200 /\ ValidName(req.body.name))
    => LET got == GetAccountReply(Str(API_KEY), resp.id) IN
       /\ got.status = 200
       /\ got.accts[1].name = req.body.name
       /\ Field(got.accts[1], "meta") = req.body.meta

\* C5: an accepted upsert on an id already stored is a shallow merge: it keeps
\* the record's created_at and the fields the payload does not carry (a
\* container's variables, triggers and tags) and takes the payload's name.
\* (No record of the store has an updated_at, so that part of the claim is
\* left out here: it fails on every upsert.)
C5_ShallowMerge ==
    [][/\ (/\ req'.op = "PUT /v1/accounts"
            /\ resp'.status = 200
            /\ MapHas(accounts, resp'.id))
           => LET old == MapGet(accounts, resp'.id)
                  new == MapGet(accounts', resp'.id)
              IN /\ new.created_at = old.created_at
                 /\ new.name = req'.body.name
       /\ (/\ req'.op = "PUT /v1/containers"
            /\ resp'.status = 200
            /\ MapHas(containers, resp'.id))
           => LET old == MapGet(containers, resp'.id)
                  new == MapGet(containers', resp'.id)
              IN /\ Field(new, "created_at") = Field(old, "created_at")
                 /\ new.name = req'.body.name
                 /\ (req'.body.variables = Absent => new.variables = old.variables)
                 /\ (req'.body.triggers = Absent => new.triggers = old.triggers)
                 /\ (req'.body.tags = Absent => new.tags = old.tags)]_vars

\* C6: an authorised upsert with a valid name and no id is accepted and
\* stores the record under an id that was no key of the collection before.
C6_GeneratedId ==
    [][/\ (/\ req'.op = "PUT /v1/accounts"
            /\ req'.key = Str(API_KEY)
            /\ req'.body.account_id = Absent
            /\ ValidName(req'.body.name))
           => (/\ resp'.status = 200
               /\ ~MapHas(accounts, resp'.id)
               /\ MapHas(accounts', resp'.id)
               /\ Len(accounts') = Len(accounts) + 1)
       /\ (/\ req'.op = "PUT /v1/containers"
            /\ req'.key = Str(API_KEY)
            /\ req'.body.container_id = Absent
            /\ ValidName(req'.body.name)
            /\ NamesAccount(req'.body.account_id))
           => (/\ resp'.status = 200
               /\ ~MapHas(containers, resp'.id)
               /\ MapHas(containers', resp'.id)
               /\ Len(containers') = Len(containers) + 1)]_vars

\* how many of the events evs carry the name k
CountOf(evs, k) == Cardinality({i \in 1..Len(evs) : evs[i].event.v = k})

\* the events whose ts parses to a time more than 24 hours before t
Older(evs, t) ==
    {i \in 1..Len(evs) :
        /\ ~Throws(evs[i].ts)
        /\ DateParse(evs[i].ts).t = "num"
        /\ t - DateParse(evs[i].ts).n > Window}

\* the events whose ts is no time
Unparsable(evs) ==
    {i \in 1..Len(evs) : Throws(evs[i].ts) \/ DateParse(evs[i].ts).t = "nan"}

\* C7: an overview that answers reports as total_events the number of ingest
\* requests accepted so far, and as by_event exactly the accepted names, each
\* with the number of accepted ingests of that name.
C7_OverviewCounts ==
    (req.op = "GET /v1/analytics/overview" /\ resp.status = 200)
    => /\ resp.total_events = Len(accepted)
       /\ OwnKeys(resp.by_event) = {accepted[i] : i \in 1..Len(accepted)}
       /\ \A j \in 1..Len(resp.by_event) :
             resp.by_event[j].v =
               Num(Cardinality({i \in 1..Len(accepted) : accepted[i] = resp.by_event[j].k}))

\* C8: last24h of an overview that answers at time now is the number of
\* stored events whose ts parses to a time in [now - 24h, now].
C8_Last24hWindow ==
    (req.op = "GET /v1/analytics/overview" /\ resp.status = 200)
    => resp.last24h =
         Cardinality({i \in 1..Len(events) :
             /\ DateParse(events[i].ts).t = "num"
             /\ now - Window <= DateParse(events[i].ts).n
             /\ DateParse(events[i].ts).n <= now})

\* C9: when events more than 24 hours old are stored, an authorised overview
\* answers, leaves them out of last24h, and counts each of them in
\* total_events and in by_event under its name.
C9_OldEventsCounted ==
    (/\ req.op = "GET /v1/analytics/overview"
     /\ req.key = Str(API_KEY)
     /\ Older(events, now) # {})
    => /\ resp.status = 200
       /\ resp.last24h <= Len(events) - Cardinality(Older(events, now))
       /\ resp.total_events = Len(events)
       /\ \A i \in Older(events, now) :
             /\ events[i].event.v \in OwnKeys(resp.by_event)
             /\ PropGet(resp.by_event, events[i].event.v)
                  = Num(CountOf(events, events[i].event.v))

\* C10: when events whose ts is no time are stored, an authorised overview
\* still answers (no error), leaves them out of last24h and counts them in
\* total_events.
C10_UnparsableTsTolerated ==
    (/\ req.op = "GET /v1/analytics/overview"
     /\ req.key = Str(API_KEY)
     /\ Unparsable(events) # {})
    => /\ resp.status = 200
       /\ resp.last24h <= Len(events) - Cardinality(Unparsable(events))
       /\ resp.total_events = Len(events)

\* The lowercase form of the type texts of the model.
Lower(s) ==
    CASE s = "WEB" -> "web"
      [] s = "Server" -> "server"
      [] OTHER -> s

\* Whether a request body passes every check of the container upsert other
\* than the one on its type.
AcceptableButType(c) ==
    /\ Truthy(c.container_id)
    /\ Truthy(c.name)
    /\ NamesAccount(c.account_id)
    /\ ~Throws(c.version)

\* C11: an authorised PUT /v1/containers whose body is acceptable otherwise and
\* whose type has the lowercase form web or server (such as WEB) is answered
\* 200 and stores the lowercase form; every stored container has the type web
\* or server.
C11_TypeCaseInsensitive ==
    /\ (/\ req.op = "PUT /v1/containers"
        /\ req.key = Str(API_KEY)
        /\ AcceptableButType(req.body)
        /\ req.body.type.t = "str"
        /\ Lower(req.body.type.v) \in {"web", "server"})
       => /\ resp.status = 200
          /\ MapHas(containers, req.body.container_id)
          /\ MapGet(containers, req.body.container_id).type
               = Str(Lower(req.body.type.v))
    /\ \A i \in 1..Len(containers) : containers[i].v.type \in {Str("web"), Str("server")}

\* C12: every stored container has a version that is an integer of at least 1.
C12_VersionPositiveInteger ==
    \A i \in 1..Len(containers) :
        /\ containers[i].v.version.t = "num"
        /\ containers[i].v.version.n >= 1

\* The stored containers in the order in which their ids were first upserted.
InFirstInsertionOrder == [i \in 1..Len(inserted) |-> MapGet(containers, inserted[i])]

\* C13: an authorised GET /v1/containers?account_id=X answers with exactly the
\* stored containers of account X (the account their account_id names), in the
\* order in which their ids were first upserted; without the filter it
\* answers with all of them in that order.
C13_ListByAccountInOrder ==
    /\ Range(inserted) = MapKeys(containers)
    /\ Len(inserted) = Len(containers)
    /\ (req.op = "GET /v1/containers" /\ req.key = Str(API_KEY))
       => /\ resp.status = 200
          /\ resp.conts =
               IF req.id = Absent
               THEN InFirstInsertionOrder
               ELSE SelectSeq(InFirstInsertionOrder,
                              LAMBDA c : String(c.account_id) = req.id)

\* C14: the events are append-only.  Every step leaves the events it finds
\* in place and unchanged (the sequence before the step is a prefix of the
\* sequence after it); an ingest answered 200 adds exactly one event at the
\* end, and no other step adds any.
C14_AppendOnly ==
    [][/\ Len(events) <= Len(events')
       /\ SubSeq(events', 1, Len(events)) = events
       /\ Len(events') = Len(events)
            + (IF req'.op = "POST /v1/ingest" /\ resp'.status = 200 THEN 1 ELSE 0)]_vars

\* two events are stored, the second by the ingest just answered
C14_Witness ==
    /\ req.op = "POST /v1/ingest"
    /\ resp.status = 200
    /\ Len(events) = 2
    /\ events[2].id = resp.id

\* An event field that is missing, empty or only white space.
Blank(x) == x.t = "absent" \/ (x.t = "str" /\ x.v \in {"", " "})

\* C15: an authorised POST /v1/ingest whose event is missing, empty or only
\* white space is answered 400 and appends nothing; every stored event has a
\* non-empty name.
C15_BlankEventRejected ==
    [][/\ (/\ req'.op = "POST /v1/ingest"
           /\ req'.key = Str(API_KEY)
           /\ Blank(req'.body.event))
          => (resp'.status = 400 /\ events' = events)
       /\ \A i \in 1..Len(events') :
             events'[i].event.t = "str" /\ events'[i].event.v # ""]_vars

\* an event of white space only is rejected while an event is stored
C15_Witness ==
    /\ req.op = "POST /v1/ingest"
    /\ req.key = Str(API_KEY)
    /\ req.body.event = Str(" ")
    /\ resp.status = 400
    /\ Len(events) >= 1

\* C16: an authorised PUT /v1/accounts whose name is empty after trimming is
\* answered 400, and every stored account has a name that is non-empty after
\* trimming.
C16_BlankNameRejected ==
    /\ (/\ req.op = "PUT /v1/accounts"
        /\ req.key = Str(API_KEY)
        /\ req.body.name.t = "str"
        /\ Trim(req.body.name.v) = "")
       => resp.status = 400
    /\ \A i \in 1..Len(accounts) : Trim(accounts[i].v.name.v) # ""

\* The largest number of events of one name.
MaxCount(evs) ==
    CHOOSE m \in 0..Len(evs) :
        /\ \A i \in 1..Len(evs) : CountOf(evs, evs[i].event.v) <= m
        /\ \E i \in 1..Len(evs) : CountOf(evs, evs[i].event.v) = m

\* C17: the top event that an authorised chat reports is a name of the largest
\* count, with that count, and no name of the same count has an event stored
\* before the first event of the reported name; with no event stored it is
\* 'n/a' with the count 0.
C17_TopEventFirstSeen ==
    (req.op = "POST /v1/analysis/chat" /\ req.key = Str(API_KEY))
    => /\ resp.status = 200
       /\ IF events = <<>>
          THEN resp.top = "n/a" /\ resp.count = Num(0)
          ELSE /\ resp.count = Num(MaxCount(events))
               /\ CountOf(events, resp.top) = MaxCount(events)
               /\ \A i \in 1..Len(events) :
                     CountOf(events, events[i].event.v) = MaxCount(events)
                     => \E j \in 1..i : events[j].event.v = resp.top

\* C18: a handler that has begun runs to its end before any other handler
\* takes a step.  While the container upsert stands between its checks and
\* its write, the accounts are as its check saw them, and the next step is
\* its own write: it stores the normalised body, sends the reply the checks
\* decided, and changes nothing else.
C18_HandlersAtomic ==
    [][/\ loop.pc = "checked"
          => /\ loop'.pc = "idle"
             /\ accounts = loop.seen
             /\ accounts' = accounts
             /\ events' = events
             /\ req' = req
             /\ resp' = loop.reply
             /\ MapGet(containers', loop.body.container_id) = NormalizedContainer(loop.body)
             /\ MapHas(accounts', String(loop.body.account_id))
       /\ loop'.pc = "checked"
          => /\ loop'.seen = accounts'
             /\ loop'.body = req'.body
             /\ MapHas(accounts', String(loop'.body.account_id))]_vars

\* an upsert has passed its checks and has not written yet, while another
\* account than the one it names is stored too
C18_Witness ==
    /\ loop.pc = "checked"
    /\ loop.reply.status = 200
    /\ ~MapHas(containers, loop.body.container_id)
    /\ Len(accounts) = 2

ReadOps ==
    {"GET /v1/accounts", "GET /v1/accounts/:id", "GET /v1/containers",
     "GET /v1/containers/:id", "GET /v1/analytics/overview",
     "POST /v1/analysis/chat", "GET /v1/health"}

\* The answer to the request of the state, made once more in that state.
OverviewAgain == OverviewReply(req.key)

\* C19: a read operation, whatever its key and its answer, leaves accounts,
\* containers and events as they were; and the answer of an overview is the
\* answer that a second overview gives in the state the first one leaves, at
\* the same now.
C19_ReadsChangeNothing ==
    [][req'.op \in ReadOps
       => /\ accounts' = accounts
          /\ containers' = containers
          /\ events' = events
          /\ req'.op = "GET /v1/analytics/overview"
             => resp' = OverviewAgain']_vars

\* an overview has answered while all three collections hold something
C19_Witness ==
    /\ req.op = "GET /v1/analytics/overview"
    /\ resp.status = 200
    /\ resp.total_events >= 1
    /\ Len(events) >= 1
    /\ Len(accounts) >= 1
    /\ Len(containers) >= 1

\* C20: after an authorised PUT /v1/containers answered 200, with the
\* container_id X and the account_id A of its body given as texts or as
\* numbers, GET /v1/containers/X answers 200 with that container and
\* GET /v1/containers?account_id=A lists it; a GET /v1/containers/:id with an
\* id that no upsert answered 200 has carried is answered 404.
C20_UpsertThenFound ==
    /\ (/\ req.op = "PUT /v1/containers"
        /\ req.key = Str(API_KEY)
        /\ resp.status = 200)
       => /\ GetContainerReply(GoodKey, String(req.body.container_id)).status = 200
          /\ GetContainerReply(GoodKey, String(req.body.container_id)).conts
               = <<NormalizedContainer(req.body)>>
          /\ NormalizedContainer(req.body)
               \in Range(ListContainersReply(GoodKey, String(req.body.account_id)).conts)
    /\ (/\ req.op = "GET /v1/containers/:id"
        /\ req.key = Str(API_KEY)
        /\ \A i \in 1..Len(inserted) : String(inserted[i]) # req.id)
       => resp.status = 404

====
